---- MODULE Spec2Model ----
(***************************************************************************)
(* Job dispatch pipeline of the multi-vendor data fetch service: the job   *)
(* store (shared/database.py), the Redis stream work queue                 *)
(* (shared/queue.py), the worker loop and vendor client (worker/main.py),  *)
(* the intake and webhook endpoints (api/main.py) and the vendor mocks     *)
(* (vendor_mocks/main.py).                                                 *)
(***************************************************************************)
EXTENDS Integers, Sequences, FiniteSets, TLC

(***************************************************************************)
(* Bounds of the model.                                                    *)
(***************************************************************************)
MaxJobs == 1
NumWorkers == 2
MaxClock == 1
\* the rate limiter is followed up to this time and over this many calls
MaxTime == 15
MaxCalls == 3

Workers == 1..NumWorkers
JobIds == 1..MaxJobs
\* an id no intake request ever generated ('test-webhook-job' in test_api.py)
UnknownId == 0

(***************************************************************************)
(* JSON values.  A value is a tagged record; text is a sequence of         *)
(* one-character strings so that strip() and the substring test of the     *)
(* PII filter are computed, not assumed.  A mapping is the sequence of its *)
(* items in insertion order.                                               *)
(***************************************************************************)
Null == [t |-> "null", v |-> <<>>]
StrV(s) == [t |-> "str", v |-> s]
NumV(n) == [t |-> "num", v |-> n]
BoolV(b) == [t |-> "bool", v |-> b]
DictV(items) == [t |-> "dict", v |-> items]
ListV(items) == [t |-> "list", v |-> items]
Item(key, value) == [k |-> key, val |-> value]
\* an error text of the job record (a Python str built by the program)
TextV(s) == [t |-> "text", v |-> s]

\* JobStatus
PENDING == "pending"
PROCESSING == "processing"
COMPLETE == "complete"
FAILED == "failed"
JobStatus == {PENDING, PROCESSING, COMPLETE, FAILED}

\* VendorType
SYNC == "sync"
ASYNC == "async"
VendorType == {SYNC, ASYNC}

(***************************************************************************)
(* clean_vendor_data and the string functions it uses.                     *)
(***************************************************************************)
Whitespace == {" ", "\t", "\n"}

RECURSIVE LStrip(_)
LStrip(s) ==
    IF s # <<>> /\ Head(s) \in Whitespace THEN LStrip(Tail(s)) ELSE s

RECURSIVE RStrip(_)
RStrip(s) ==
    IF s # <<>> /\ s[Len(s)] \in Whitespace
    THEN RStrip(SubSeq(s, 1, Len(s) - 1))
    ELSE s

\* str.strip()
Strip(s) == RStrip(LStrip(s))

UpperCase == [E |-> "e", S |-> "s", N |-> "n", P |-> "p"]

\* str.lower()
Lower(s) ==
    [i \in 1..Len(s) |-> IF s[i] \in DOMAIN UpperCase THEN UpperCase[s[i]] ELSE s[i]]

\* sub in s
Contains(sub, s) ==
    \E i \in 1..(Len(s) - Len(sub) + 1) : SubSeq(s, i, i + Len(sub) - 1) = sub

PiiPatterns ==
    { <<"e", "m", "a", "i", "l">>,
      <<"p", "h", "o", "n", "e">>,
      <<"s", "s", "n">>,
      <<"p", "a", "s", "s", "w", "o", "r", "d">> }

\* any(pii in key.lower() for pii in ['email', 'phone', 'ssn', 'password'])
IsPiiKey(key) == \E pii \in PiiPatterns : Contains(pii, Lower(key))

Redacted == StrV(<<"[", "R", "E", "D", "A", "C", "T", "E", "D", "]">>)

RECURSIVE clean_vendor_data(_)
clean_vendor_data(data) ==
    IF data.t # "dict" THEN data
    ELSE DictV([i \in 1..Len(data.v) |->
            LET key == data.v[i].k
                value == data.v[i].val
            IN  Item(key,
                     CASE value.t = "str" ->
                            IF IsPiiKey(key) THEN Redacted ELSE StrV(Strip(value.v))
                       [] value.t = "dict" -> clean_vendor_data(value)
                       [] value.t = "list" ->
                            ListV([n \in 1..Len(value.v) |->
                                    IF value.v[n].t = "dict"
                                    THEN clean_vendor_data(value.v[n])
                                    ELSE value.v[n]])
                       [] OTHER -> value)])


\* bool(x) of a JSON value
Truthy(x) ==
    CASE x.t = "null" -> FALSE
      [] x.t = "bool" -> x.v
      [] x.t = "num" -> x.v # 0
      [] OTHER -> x.v # <<>>

\* d.get(key, default) of a mapping
Get(d, key, default) ==
    IF \E i \in 1..Len(d.v) : d.v[i].k = key
    THEN d.v[CHOOSE i \in 1..Len(d.v) : d.v[i].k = key].val
    ELSE default

\* json.dumps / json.loads of the queue entry's payload field
JsonDumps(x) == [t |-> "json", v |-> x]
JsonLoads(s) == s.v

(***************************************************************************)
(* Keys and texts of the sample documents.                                 *)
(***************************************************************************)
kSuccess == <<"s", "u", "c", "c", "e", "s", "s">>
kData == <<"d", "a", "t", "a">>
kError == <<"e", "r", "r", "o", "r">>
kEmail == <<"e", "m", "a", "i", "l">>
kEmails == <<"E", "m", "a", "i", "l", "s">>
kName == <<"n", "a", "m", "e">>
kUser == <<"u", "s", "e", "r">>
kPhone == <<"P", "h", "o", "n", "e">>
kItems == <<"i", "t", "e", "m", "s">>
kSsn == <<"s", "s", "n">>
kR == <<"r">>
kX == <<"x">>
sAddr == <<" ", "a", "@", "b", " ">>
sAl == <<" ", "a", "l", "\t">>
sQuota == <<"q", "u", "o", "t", "a">>

\* payload posted to POST /jobs: {"x": 1}
Payloads == { DictV(<<Item(kX, NumV(1))>>) }

\* {"success": true, "data": {"email": " a@b "}}
BodyFlat ==
    DictV(<<Item(kSuccess, BoolV(TRUE)),
            Item(kData, DictV(<<Item(kEmail, StrV(sAddr))>>))>>)
\* {"success": true, "data": {"name": " al\t", "user": {"Phone": " a@b ", "items": [{"ssn": " al\t"}, 1]}}}
BodyNested ==
    DictV(<<Item(kSuccess, BoolV(TRUE)),
            Item(kData, DictV(<<Item(kName, StrV(sAl)),
                                Item(kUser, DictV(<<Item(kPhone, StrV(sAddr)),
                                                    Item(kItems, ListV(<<DictV(<<Item(kSsn, StrV(sAl))>>),
                                                                         NumV(1)>>))>>))>>))>>)
\* {"success": true, "data": {"Emails": [" a@b "]}}
BodyListOfStr ==
    DictV(<<Item(kSuccess, BoolV(TRUE)),
            Item(kData, DictV(<<Item(kEmails, ListV(<<StrV(sAddr)>>))>>))>>)
\* {"success": false, "error": "quota"}
BodyNotSuccess ==
    DictV(<<Item(kSuccess, BoolV(FALSE)), Item(kError, StrV(sQuota))>>)
\* {"success": true, "data": null}
BodyNullData == DictV(<<Item(kSuccess, BoolV(TRUE)), Item(kData, Null)>>)
\* {"success": true}
BodyNoData == DictV(<<Item(kSuccess, BoolV(TRUE))>>)
\* {}
BodyEmpty == DictV(<<>>)
\* [1]
BodyNotAMapping == ListV(<<NumV(1)>>)

SyncBodies ==
    { BodyFlat, BodyNested, BodyListOfStr, BodyNotSuccess, BodyNullData,
      BodyNoData, BodyEmpty, BodyNotAMapping }

\* what the HTTP client sees of one POST /process: an exception, or a status
\* code with a JSON body
Reply(raised, status, body) == [raised |-> raised, status |-> status, body |-> body]
SyncReplies ==
    { Reply(TRUE, 0, Null), Reply(FALSE, 500, Null), Reply(FALSE, 429, Null) }
        \cup { Reply(FALSE, 200, b) : b \in SyncBodies }

\* data of a webhook callback: {"r": 1} and {"email": " a@b "}
WebhookPii == DictV(<<Item(kEmail, StrV(sAddr))>>)
WebhookData == { DictV(<<Item(kR, NumV(1))>>), WebhookPii }

(***************************************************************************)
(* Job store: DatabaseManager.                                             *)
(***************************************************************************)
\* insert_one replacing the document that has the id
create_job_replace(store, request_id, payload, ts) ==
    (request_id :> [payload |-> payload,
                    status |-> PENDING,
                    created_at |-> ts,
                    updated_at |-> ts,
                    result |-> Null,
                    error |-> Null]) @@ store

\* insert_one under the unique index on request_id
create_job(store, request_id, payload, ts) ==
    IF request_id \in DOMAIN store THEN store
    ELSE (request_id :> [payload |-> payload,
                         status |-> PENDING,
                         created_at |-> ts,
                         updated_at |-> ts,
                         result |-> Null,
                         error |-> Null]) @@ store

\* update_job_status writing result and error whether supplied or not
update_job_status_replace(store, request_id, status, result, error, ts) ==
    IF request_id \notin DOMAIN store THEN store
    ELSE [store EXCEPT ![request_id] =
            [@ EXCEPT !.status = status,
                      !.updated_at = ts,
                      !.result = result,
                      !.error = error]]

\* update_one({"request_id": id}, {"$set": update_data})
update_job_status(store, request_id, status, result, error, ts) ==
    IF request_id \notin DOMAIN store THEN store
    ELSE [store EXCEPT ![request_id] =
            [@ EXCEPT !.status = status,
                      !.updated_at = ts,
                      !.result = IF result # Null THEN result ELSE @,
                      !.error = IF error # Null THEN error ELSE @]]

\* return value of update_job_status: modified_count > 0
update_modified(store, request_id, status, result, error, ts) ==
    update_job_status(store, request_id, status, result, error, ts) # store

(***************************************************************************)
(* State.                                                                  *)
(*   jobs           the jobs collection, keyed by request_id               *)
(*   nextId         the next request id generate_request_id hands out      *)
(*   stream         the Redis stream job_queue (entry id = position)       *)
(*   lastDelivered  last-delivered id of the consumer group worker_group   *)
(*   pel            the group's pending entries list (unacknowledged ids)  *)
(*   pc, cur        position and locals of each worker process             *)
(*   callbacks      job ids whose _process_async task is scheduled at the  *)
(*                  asynchronous vendor                                    *)
(*   now            the wall clock                                         *)
(*   accepted       history: jobs for which call_async_vendor returned     *)
(*                  True                                                   *)
(*   webhooked      history: jobs whose record vendor_webhook has updated  *)
(*                  since the Dispatcher last wrote processing to it       *)
(*   response       the HTTP response of the request the API handled last  *)
(*   deliveries     history: how many times xreadgroup has returned each   *)
(*                  stream entry                                           *)
(*   requests       history: how many requests the VendorClients have sent *)
(*                  for each stream entry                                  *)
(*   last_call_time RateLimiter.last_call_time of the limiter each worker  *)
(*                  process has for each vendor channel                    *)
(*   waiting        the call each worker process has inside                *)
(*                  wait_if_needed, if any                                 *)
(*   admitted       history: the calls wait_if_needed has returned to,     *)
(*                  with the time they entered and the time they left      *)
(***************************************************************************)
VARIABLES jobs, nextId, stream, lastDelivered, pel, pc, cur, callbacks, now,
          accepted, webhooked, response, deliveries, requests,
          last_call_time, waiting, admitted

\* the rate limiters of the VendorClients and the calls waiting in them
limiter == <<last_call_time, waiting, admitted>>

vars == <<jobs, nextId, stream, lastDelivered, pel, pc, cur, callbacks, now,
          accepted, webhooked, response, deliveries, requests, limiter>>

\* an HTTP response: the handler that produced it, the status code and the
\* request_id of a JobResponse
Response(op, code, request_id) == [op |-> op, code |-> code, request_id |-> request_id]
NoResponse == Response("none", 0, UnknownId)

\* no call is inside wait_if_needed
NoCall == [pc |-> "out", ch |-> "none", current_time |-> 0, wake |-> 0]

\* updated_at is update_data["updated_at"] of an update_job_status call that
\* has read the clock and has not yet sent its update_one
NoCur ==
    [message_id |-> 0, job_id |-> UnknownId, payload |-> Null,
     vendor_type |-> "none", result |-> Null, success |-> FALSE, updated_at |-> 0]

Init ==
    /\ jobs = << >>
    /\ nextId = 1
    /\ stream = << >>
    /\ lastDelivered = 0
    /\ pel = {}
    /\ pc = [w \in Workers |-> "idle"]
    /\ cur = [w \in Workers |-> NoCur]
    /\ callbacks = {}
    /\ now = 0
    /\ accepted = {}
    /\ webhooked = {}
    /\ response = NoResponse
    /\ deliveries = << >>
    /\ requests = << >>
    /\ last_call_time = [w \in Workers |-> [ch \in VendorType |-> 0]]
    /\ waiting = [w \in Workers |-> NoCall]
    /\ admitted = << >>

\* time.time() / datetime.utcnow() advance
Tick ==
    /\ now < MaxClock
    /\ now' = now + 1
    /\ UNCHANGED <<jobs, nextId, stream, lastDelivered, pel, pc, cur, callbacks,
                   accepted, webhooked,
                   response, deliveries, requests, limiter>>

(***************************************************************************)
(* Work queue: QueueManager.                                               *)
(***************************************************************************)
\* xadd of the entry built by enqueue_job
enqueue_job(q, request_id, payload, vendor_type, ts) ==
    Append(q, [request_id |-> request_id,
               payload |-> JsonDumps(payload),
               vendor_type |-> vendor_type,
               timestamp |-> ts])

(***************************************************************************)
(* Intake: POST /jobs.  dbOk = FALSE is insert_one failing at transport    *)
(* level, queueOk = FALSE is xadd raising.                                 *)
(***************************************************************************)
\* the handler going on to enqueue whatever DatabaseManager.create_job returned
create_job_ok_unchecked(store, request_id, dbOk) == TRUE

\* return value of DatabaseManager.create_job: False when insert_one raised,
\* because the transport failed or the unique index rejected the id
create_job_ok(store, request_id, dbOk) == dbOk /\ request_id \notin DOMAIN store

\* the handler answering with the request id although the job was not queued
api_create_response_unqueued(created, queued, request_id) ==
    IF created
    THEN Response("create_job", 200, request_id)
    ELSE Response("create_job", 500, UnknownId)

\* JobResponse(request_id) once the job is stored and queued, else the
\* HTTPException with status 500
api_create_response(created, queued, request_id) ==
    IF created /\ queued
    THEN Response("create_job", 200, request_id)
    ELSE Response("create_job", 500, UnknownId)

\* the handler, generate_request_id having returned request_id
post_jobs(request_id, payload, vendor_type, dbOk, queueOk) ==
    LET created == create_job_ok(jobs, request_id, dbOk)
        queued == created /\ queueOk
    IN  /\ jobs' = IF dbOk THEN create_job(jobs, request_id, payload, now) ELSE jobs
        /\ stream' = IF queued
                     THEN enqueue_job(stream, request_id, payload, vendor_type, now)
                     ELSE stream
        /\ response' = api_create_response(created, queued, request_id)
        /\ UNCHANGED <<lastDelivered, pel, pc, cur, callbacks, now, accepted, webhooked,
                       deliveries, requests, limiter>>

\* uuid4 returns an id no job has
api_create_job(payload, vendor_type, dbOk, queueOk) ==
    /\ nextId <= MaxJobs
    /\ nextId' = nextId + 1
    /\ post_jobs(nextId, payload, vendor_type, dbOk, queueOk)

\* uuid4 returns the id of a stored job
api_create_job_collision(request_id, payload, vendor_type) ==
    /\ request_id \in DOMAIN jobs
    /\ UNCHANGED nextId
    /\ post_jobs(request_id, payload, vendor_type, TRUE, TRUE)

(***************************************************************************)
(* Status query: GET /jobs/{request_id}.                                   *)
(***************************************************************************)
\* DatabaseManager.get_job returns a document (find_one found one), not None
get_job(store, request_id) == request_id \in DOMAIN store

get_job_status(request_id) ==
    /\ response' = IF get_job(jobs, request_id)
                   THEN Response("get_job_status", 200, request_id)
                   ELSE Response("get_job_status", 404, UnknownId)
    /\ UNCHANGED <<jobs, nextId, stream, lastDelivered, pel, pc, cur, callbacks, now,
                   accepted, webhooked, deliveries, requests, limiter>>

(***************************************************************************)
(* Webhook completion handler: POST /vendor-webhook/{vendor}.              *)
(***************************************************************************)
\* the handler passing the callback's data through clean_vendor_data
webhook_store_cleaned(store, job_id, data, ts) ==
    update_job_status(store, job_id, COMPLETE, clean_vendor_data(data), Null, ts)

\* the handler completing only a job that is in processing
webhook_store_if_processing(store, job_id, data, ts) ==
    IF job_id \in DOMAIN store /\ store[job_id].status = PROCESSING
    THEN update_job_status(store, job_id, COMPLETE, data, Null, ts)
    ELSE store

webhook_store(store, job_id, data, ts) ==
    update_job_status(store, job_id, COMPLETE, data, Null, ts)

\* success when update_job_status returned True, else HTTPException 404
webhook_response(store, job_id, data, ts) ==
    IF update_modified(store, job_id, COMPLETE, data, Null, ts)
    THEN Response("vendor_webhook", 200, UnknownId)
    ELSE Response("vendor_webhook", 404, UnknownId)

\* a callback posted by any caller of the endpoint
vendor_webhook(job_id, data) ==
    /\ jobs' = webhook_store(jobs, job_id, data, now)
    /\ response' = webhook_response(jobs, job_id, data, now)
    /\ webhooked' = IF job_id \in DOMAIN jobs THEN webhooked \cup {job_id} ELSE webhooked
    /\ UNCHANGED <<nextId, stream, lastDelivered, pel, pc, cur, callbacks, now, accepted,
                   deliveries, requests, limiter>>

\* a request id as the JSON string of a request body
IdV(request_id) == [t |-> "str", v |-> request_id]

kJobId == <<"j", "o", "b", "_", "i", "d">>

\* request bodies posted to the webhook endpoint: well formed, without data,
\* without job_id, and with data that is an array, a string or null
WebhookBodies ==
    UNION { { DictV(<<Item(kJobId, IdV(job_id)), Item(kData, WebhookPii)>>),
              DictV(<<Item(kJobId, IdV(job_id))>>),
              DictV(<<Item(kData, WebhookPii)>>),
              DictV(<<Item(kJobId, IdV(job_id)), Item(kData, ListV(<<NumV(1)>>))>>),
              DictV(<<Item(kJobId, IdV(job_id)), Item(kData, StrV(sAddr))>>),
              DictV(<<Item(kJobId, IdV(job_id)), Item(kData, Null)>>) }
            : job_id \in JobIds }

\* the endpoint handing every body to the handler
WebhookRequest_unvalidated(body) == TRUE

\* the body validates as a WebhookRequest: job_id: str, data: Dict[str, Any]
WebhookRequest(body) ==
    /\ body.t = "dict"
    /\ Get(body, kJobId, Null).t = "str"
    /\ Get(body, kData, Null).t = "dict"

\* POST /vendor-webhook/{vendor} with a JSON body: the body is validated
\* against WebhookRequest before the handler runs, and a body that does not
\* validate is answered 422 without the handler being called
post_vendor_webhook(body) ==
    IF WebhookRequest(body)
    THEN vendor_webhook(IF Get(body, kJobId, Null).t = "str"
                        THEN Get(body, kJobId, Null).v
                        ELSE UnknownId,
                        Get(body, kData, Null))
    ELSE /\ response' = Response("vendor_webhook", 422, UnknownId)
         /\ UNCHANGED <<jobs, nextId, stream, lastDelivered, pel, pc, cur, callbacks, now,
                        accepted, webhooked, deliveries, requests, limiter>>

\* the callback the asynchronous vendor posts for an accepted request
process_async(job_id, data) ==
    /\ job_id \in callbacks
    /\ callbacks' = callbacks \ {job_id}
    /\ jobs' = webhook_store(jobs, job_id, data, now)
    /\ response' = webhook_response(jobs, job_id, data, now)
    /\ webhooked' = IF job_id \in DOMAIN jobs THEN webhooked \cup {job_id} ELSE webhooked
    /\ UNCHANGED <<nextId, stream, lastDelivered, pel, pc, cur, now, accepted,
                   deliveries, requests, limiter>>

(***************************************************************************)
(* Worker: QueueManager.dequeue_job as called from Worker.run.             *)
(***************************************************************************)
\* xreadgroup(group, consumer, {stream: ">"}, count=1): the next entry never
\* delivered to the group goes to the caller and into the pending entries list
\* the group's last-delivered id staying where it was after a read
group_last_delivered_stale(last, message_id) == last

\* the group's last-delivered id after xreadgroup returned entry message_id
group_last_delivered(last, message_id) == message_id

\* one more delivery of, or request for, entry message_id
Delivered(d, message_id) ==
    IF message_id \in DOMAIN d
    THEN [d EXCEPT ![message_id] = @ + 1]
    ELSE (message_id :> 1) @@ d

\* Worker.run reading the next entry while process_job has not returned
dequeue_job_read_eager(w) ==
    /\ pc[w] \in {"idle", "dequeued", "processing", "called"}
    /\ lastDelivered < Len(stream)
    /\ lastDelivered' = group_last_delivered(lastDelivered, lastDelivered + 1)
    /\ pel' = pel \cup {lastDelivered + 1}
    /\ cur' = [cur EXCEPT ![w] = [NoCur EXCEPT !.message_id = lastDelivered + 1]]
    /\ pc' = [pc EXCEPT ![w] = "read"]
    /\ deliveries' = Delivered(deliveries, lastDelivered + 1)
    /\ UNCHANGED <<jobs, nextId, stream, callbacks, now, accepted, webhooked,
                   response, requests, limiter>>

\* Worker.run calls dequeue_job when it holds no job: process_job is awaited
dequeue_job_read(w) ==
    /\ pc[w] = "idle"
    /\ lastDelivered < Len(stream)
    /\ lastDelivered' = group_last_delivered(lastDelivered, lastDelivered + 1)
    /\ pel' = pel \cup {lastDelivered + 1}
    /\ cur' = [cur EXCEPT ![w] = [NoCur EXCEPT !.message_id = lastDelivered + 1]]
    /\ pc' = [pc EXCEPT ![w] = "read"]
    /\ deliveries' = Delivered(deliveries, lastDelivered + 1)
    /\ UNCHANGED <<jobs, nextId, stream, callbacks, now, accepted, webhooked,
                   response, requests, limiter>>

\* dequeue_job fails after xreadgroup delivered the entry (the entry does not
\* parse, or xack raises): the exception is printed, None is returned and
\* Worker.run sleeps 0.1 s as if no entry were available
dequeue_job_fail(w) ==
    /\ pc[w] = "read"
    /\ cur' = [cur EXCEPT ![w] = NoCur]
    /\ pc' = [pc EXCEPT ![w] = "idle"]
    /\ UNCHANGED <<jobs, nextId, stream, lastDelivered, pel, callbacks, now, accepted,
                   webhooked, response, deliveries, requests, limiter>>

\* VendorRequest(job_id, payload) is parsed from the entry, the entry is
\* acknowledged (xack) and the request is returned to Worker.run
dequeue_job_ack(w) ==
    /\ pc[w] = "read"
    /\ LET data == stream[cur[w].message_id]
       IN  cur' = [cur EXCEPT ![w] = [@ EXCEPT !.job_id = data.request_id,
                                               !.payload = JsonLoads(data.payload)]]
    /\ pel' = pel \ {cur[w].message_id}
    /\ pc' = [pc EXCEPT ![w] = "dequeued"]
    /\ UNCHANGED <<jobs, nextId, stream, lastDelivered, callbacks, now, accepted, webhooked,
                   response, deliveries, requests, limiter>>

(***************************************************************************)
(* Worker.process_job.                                                     *)
(***************************************************************************)
\* update_job_status(job_id, PROCESSING)
process_job_start(w) ==
    /\ pc[w] = "dequeued"
    /\ jobs' = update_job_status(jobs, cur[w].job_id, PROCESSING, Null, Null, now)
    /\ webhooked' = webhooked \ {cur[w].job_id}
    /\ pc' = [pc EXCEPT ![w] = "processing"]
    /\ UNCHANGED <<nextId, stream, lastDelivered, pel, cur, callbacks, now, accepted,
                   response, deliveries, requests, limiter>>

\* update_job_status(job_id, PROCESSING) builds update_data: datetime.utcnow()
\* is read in the worker process before update_one is sent to the store
update_job_status_stamp(w) ==
    /\ pc[w] = "dequeued"
    /\ cur' = [cur EXCEPT ![w] = [@ EXCEPT !.updated_at = now]]
    /\ pc' = [pc EXCEPT ![w] = "stamped"]
    /\ UNCHANGED <<jobs, nextId, stream, lastDelivered, pel, callbacks, now, accepted,
                   webhooked, response, deliveries, requests, limiter>>

\* the update_one of that call reaches the store, which may have handled
\* other writers' updates since the clock was read
update_job_status_write(w) ==
    /\ pc[w] = "stamped"
    /\ jobs' = update_job_status(jobs, cur[w].job_id, PROCESSING, Null, Null,
                                 cur[w].updated_at)
    /\ webhooked' = webhooked \ {cur[w].job_id}
    /\ cur' = [cur EXCEPT ![w] = [@ EXCEPT !.updated_at = 0]]
    /\ pc' = [pc EXCEPT ![w] = "processing"]
    /\ UNCHANGED <<nextId, stream, lastDelivered, pel, callbacks, now, accepted,
                   response, deliveries, requests, limiter>>

\* update_job_status(job_id, PROCESSING) returning False because update_one
\* raised: process_job does not look at the return value and goes on
process_job_start_lost(w) ==
    /\ pc[w] = "dequeued"
    /\ pc' = [pc EXCEPT ![w] = "processing"]
    /\ UNCHANGED <<jobs, nextId, stream, lastDelivered, pel, cur, callbacks, now, accepted,
                   webhooked, response, deliveries, requests, limiter>>

\* "sync" if hash(job_id) % 2 == 0 else "async".  The id is a random uuid4
\* string and str hashes are salted per process, so the parity is an
\* arbitrary bit; each id is hashed once.
vendor_type_of(parity) == IF parity = 0 THEN SYNC ELSE ASYNC

\* return value of VendorClient.call_sync_vendor
sync_vendor_result(reply) ==
    IF ~reply.raised /\ reply.status = 200 THEN reply.body ELSE Null

call_sync_vendor(w, parity, reply) ==
    /\ pc[w] = "processing"
    /\ vendor_type_of(parity) = SYNC
    /\ cur' = [cur EXCEPT ![w] = [@ EXCEPT !.vendor_type = SYNC,
                                           !.result = sync_vendor_result(reply)]]
    /\ pc' = [pc EXCEPT ![w] = "called"]
    /\ requests' = Delivered(requests, cur[w].message_id)
    /\ UNCHANGED <<jobs, nextId, stream, lastDelivered, pel, callbacks, now, accepted, webhooked,
                   response, deliveries, limiter>>

\* replies of the asynchronous vendor's POST /process
AsyncReplies ==
    { Reply(TRUE, 0, Null), Reply(FALSE, 429, Null), Reply(FALSE, 200, BodyNoData) }

\* return value of VendorClient.call_async_vendor
async_vendor_result(reply) == ~reply.raised /\ reply.status = 200

\* scheduled = AsyncVendorMock.process ran create_task(_process_async): always
\* on a 200 reply, never on a rejection, and either way when the client raised
\* (the request or only its response was lost)
call_async_vendor(w, parity, reply, scheduled) ==
    /\ pc[w] = "processing"
    /\ vendor_type_of(parity) = ASYNC
    /\ reply.status = 200 => scheduled
    /\ reply.status = 429 => ~scheduled
    /\ callbacks' = IF scheduled THEN callbacks \cup {cur[w].job_id} ELSE callbacks
    /\ cur' = [cur EXCEPT ![w] = [@ EXCEPT !.vendor_type = ASYNC,
                                           !.success = async_vendor_result(reply)]]
    /\ accepted' = IF async_vendor_result(reply)
                   THEN accepted \cup {cur[w].job_id}
                   ELSE accepted
    /\ pc' = [pc EXCEPT ![w] = "called"]
    /\ requests' = Delivered(requests, cur[w].message_id)
    /\ UNCHANGED <<jobs, nextId, stream, lastDelivered, pel, now, webhooked,
                   response, deliveries, limiter>>

\* str(e) of the AttributeError that result.get raises on a JSON array
AttributeErrorText == TextV("'list' object has no attribute 'get'")

\* process_job marking the job complete once the asynchronous vendor accepted
finish_store_async_complete(store, c, ts) ==
    IF c.vendor_type = SYNC
    THEN IF Truthy(c.result)
         THEN IF c.result.t # "dict"
              THEN update_job_status(store, c.job_id, FAILED, Null,
                                     AttributeErrorText, ts)
              ELSE update_job_status(store, c.job_id, COMPLETE,
                                     clean_vendor_data(Get(c.result, kData, DictV(<< >>))),
                                     Null, ts)
         ELSE update_job_status(store, c.job_id, FAILED, Null,
                                TextV("Sync vendor call failed"), ts)
    ELSE IF c.success
         THEN update_job_status(store, c.job_id, COMPLETE, Null, Null, ts)
         ELSE update_job_status(store, c.job_id, FAILED, Null,
                                TextV("Async vendor call failed"), ts)

\* process_job leaving the record alone when the asynchronous dispatch failed
finish_store_async_failure_ignored(store, c, ts) ==
    IF c.vendor_type = SYNC
    THEN IF Truthy(c.result)
         THEN IF c.result.t # "dict"
              THEN update_job_status(store, c.job_id, FAILED, Null, AttributeErrorText, ts)
              ELSE update_job_status(store, c.job_id, COMPLETE,
                                     clean_vendor_data(Get(c.result, kData, DictV(<< >>))),
                                     Null, ts)
         ELSE update_job_status(store, c.job_id, FAILED, Null,
                                TextV("Sync vendor call failed"), ts)
    ELSE store

\* process_job without its except branch: the AttributeError leaves
\* process_job and the record stays as it was
finish_store_uncaught(store, c, ts) ==
    IF c.vendor_type = SYNC
    THEN IF Truthy(c.result)
         THEN IF c.result.t # "dict"
              THEN store
              ELSE update_job_status(store, c.job_id, COMPLETE,
                                     clean_vendor_data(Get(c.result, kData, DictV(<< >>))),
                                     Null, ts)
         ELSE update_job_status(store, c.job_id, FAILED, Null,
                                TextV("Sync vendor call failed"), ts)
    ELSE IF c.success
         THEN store
         ELSE update_job_status(store, c.job_id, FAILED, Null,
                                TextV("Async vendor call failed"), ts)

\* the write process_job makes after the vendor call returned
finish_store(store, c, ts) ==
    IF c.vendor_type = SYNC
    THEN IF Truthy(c.result)
         THEN IF c.result.t # "dict"
              \* result.get raises; the except branch records str(e)
              THEN update_job_status(store, c.job_id, FAILED, Null,
                                     AttributeErrorText, ts)
              ELSE update_job_status(store, c.job_id, COMPLETE,
                                     clean_vendor_data(Get(c.result, kData, DictV(<< >>))),
                                     Null, ts)
         ELSE update_job_status(store, c.job_id, FAILED, Null,
                                TextV("Sync vendor call failed"), ts)
    ELSE IF c.success
         THEN store
         ELSE update_job_status(store, c.job_id, FAILED, Null,
                                TextV("Async vendor call failed"), ts)

\* the vendor call made for c did not succeed
CallFailed(c) ==
    IF c.vendor_type = SYNC THEN c.result.t = "null" ELSE ~c.success

\* process_job calling the vendor again after a call that did not succeed
process_job_finish_retry(w) ==
    /\ pc[w] = "called"
    /\ jobs' = finish_store(jobs, cur[w], now)
    /\ cur' = [cur EXCEPT ![w] = IF CallFailed(cur[w]) THEN @ ELSE NoCur]
    /\ pc' = [pc EXCEPT ![w] = IF CallFailed(cur[w]) THEN "processing" ELSE "idle"]
    /\ UNCHANGED <<nextId, stream, lastDelivered, pel, callbacks, now, accepted, webhooked,
                   response, deliveries, requests, limiter>>

\* the status write after the call; process_job returns to Worker.run
process_job_finish(w) ==
    /\ pc[w] = "called"
    /\ jobs' = finish_store(jobs, cur[w], now)
    /\ cur' = [cur EXCEPT ![w] = NoCur]
    /\ pc' = [pc EXCEPT ![w] = "idle"]
    /\ UNCHANGED <<nextId, stream, lastDelivered, pel, callbacks, now, accepted, webhooked,
                   response, deliveries, requests, limiter>>

(***************************************************************************)
(* A worker process dies between two of its steps and is started again     *)
(* (Worker.start): its locals are gone, the store and the queue are as it  *)
(* left them.                                                              *)
(***************************************************************************)
Crash(w) ==
    /\ pc[w] \in {"read", "dequeued", "processing", "called"}
    /\ pc' = [pc EXCEPT ![w] = "idle"]
    /\ cur' = [cur EXCEPT ![w] = NoCur]
    /\ UNCHANGED <<jobs, nextId, stream, lastDelivered, pel, callbacks, now,
                   accepted, webhooked,
                   response, deliveries, requests, limiter>>

(***************************************************************************)
(* RateLimiter.  Time is counted in ticks of 1/15 s, in which the minimum  *)
(* intervals of both limiters of a VendorClient are whole numbers.  Every  *)
(* worker process builds its own VendorClient (Worker.__init__) and makes  *)
(* its vendor calls one after the other, so each process has one limiter   *)
(* per channel and at most one call inside wait_if_needed.                 *)
(***************************************************************************)
\* RateLimiter(calls_per_second=5) and RateLimiter(calls_per_second=3)
SyncCallsPerSecond == 5
AsyncCallsPerSecond == 3
TicksPerSecond == 15

calls_per_second(ch) == IF ch = SYNC THEN SyncCallsPerSecond ELSE AsyncCallsPerSecond

\* self.min_interval = 1.0 / calls_per_second
min_interval(ch) == TicksPerSecond \div calls_per_second(ch)

\* time.time() when the worker starts: later than any interval after the
\* epoch, the initial last_call_time
StartTime == min_interval(ASYNC)

\* the argument of time.sleep, 0 when wait_if_needed does not sleep
sleep_time(current_time, last, interval) ==
    IF current_time - last < interval THEN interval - (current_time - last) ELSE 0

\* last_call_time taken from the clock reading made before the sleep
stamp_on_entry(current_time, after) == current_time

\* self.last_call_time = time.time(), read after the sleep
stamp(current_time, after) == after

\* the clock advances while the limiter is in use
Elapse ==
    /\ now < MaxTime
    /\ now' = now + 1
    /\ UNCHANGED <<jobs, nextId, stream, lastDelivered, pel, pc, cur, callbacks,
                   accepted, webhooked, response, deliveries, requests, limiter>>

\* wait_if_needed reads the clock and, when less than min_interval has passed
\* since last_call_time, goes to sleep for the rest of it
wait_if_needed_enter(w, ch) ==
    /\ waiting[w].pc = "out"
    /\ Len(admitted) < MaxCalls
    /\ waiting' = [waiting EXCEPT ![w] =
                     [pc |-> "in", ch |-> ch, current_time |-> now,
                      wake |-> now + sleep_time(now, last_call_time[w][ch],
                                                min_interval(ch))]]
    /\ UNCHANGED <<jobs, nextId, stream, lastDelivered, pel, pc, cur, callbacks, now,
                   accepted, webhooked, response, deliveries, requests, last_call_time, admitted>>

\* the sleep, if any, is over: wait_if_needed stamps last_call_time and
\* returns, and the vendor request goes out
wait_if_needed_return(w) ==
    /\ waiting[w].pc = "in"
    /\ now >= waiting[w].wake
    /\ last_call_time' = [last_call_time EXCEPT
                            ![w][waiting[w].ch] = stamp(waiting[w].current_time, now)]
    /\ admitted' = Append(admitted, [w |-> w,
                                     ch |-> waiting[w].ch,
                                     entered |-> waiting[w].current_time,
                                     at |-> now])
    /\ waiting' = [waiting EXCEPT ![w] = NoCall]
    /\ UNCHANGED <<jobs, nextId, stream, lastDelivered, pel, pc, cur, callbacks, now,
                   accepted, webhooked, response, deliveries, requests>>

\* the replies of the synchronous vendor mock: a result, or a 500 / 429 error
MockSyncReplies == { Reply(FALSE, 200, BodyFlat), Reply(FALSE, 500, Null) }

\* the steps of the intake, the webhook endpoint and the asynchronous vendor,
\* callbacks carrying data from D
ApiStepWith(D) ==
    \/ \E payload \in Payloads, vendor_type \in VendorType, dbOk \in BOOLEAN, queueOk \in BOOLEAN :
          api_create_job(payload, vendor_type, dbOk, queueOk)
    \/ \E job_id \in JobIds \cup {UnknownId}, data \in D :
          vendor_webhook(job_id, data)
    \/ \E job_id \in JobIds, data \in D : process_async(job_id, data)

ApiStep == ApiStepWith(WebhookData)

\* the steps of the worker processes W, the synchronous vendor answering with
\* replies R
RunStep(W, R) ==
    \/ \E w \in W : dequeue_job_read(w)
    \/ \E w \in W : dequeue_job_ack(w)
    \/ \E w \in W : dequeue_job_fail(w)
    \/ \E w \in W : process_job_start(w)
    \/ \E w \in W, parity \in {0, 1}, reply \in R : call_sync_vendor(w, parity, reply)
    \/ \E w \in W, parity \in {0, 1}, reply \in AsyncReplies, scheduled \in BOOLEAN :
          call_async_vendor(w, parity, reply, scheduled)
    \/ \E w \in W : process_job_finish(w)

\* all worker processes, any of them dying at any point; the clock stands still
Next == ApiStep \/ RunStep(Workers, MockSyncReplies) \/ \E w \in Workers : Crash(w)

Spec == Init /\ [][Next]_vars

\* one worker process that runs without dying, the clock running, every
\* callback carrying the same data
NextClock == Tick \/ ApiStepWith({WebhookPii}) \/ RunStep({1}, MockSyncReplies)

SpecClock == Init /\ [][NextClock]_vars

\* one worker process, the synchronous vendor answering with every reply shape
NextSync == ApiStep \/ RunStep({1}, SyncReplies) \/ Crash(1)

SpecSync == Init /\ [][NextSync]_vars

\* one worker process; uuid4 may return an id already stored, and clients
\* query the status of jobs
NextStore ==
    \/ ApiStep
    \/ \E request_id \in JobIds, payload \in Payloads, vendor_type \in VendorType :
          api_create_job_collision(request_id, payload, vendor_type)
    \/ \E request_id \in JobIds \cup {UnknownId} : get_job_status(request_id)
    \/ RunStep({1}, MockSyncReplies)

SpecStore == Init /\ [][NextStore]_vars

\* one worker process; the store may fail the Dispatcher's processing write
NextStoreFault ==
    ApiStep \/ RunStep({1}, MockSyncReplies) \/ process_job_start_lost(1)

SpecStoreFault == Init /\ [][NextStoreFault]_vars

\* one worker process; the webhook endpoint is posted bodies of every shape
NextValidate ==
    \/ ApiStep
    \/ \E body \in WebhookBodies : post_vendor_webhook(body)
    \/ RunStep({1}, MockSyncReplies)

SpecValidate == Init /\ [][NextValidate]_vars

\* one worker process, the clock running; other writers' updates may reach the
\* store between the clock reading and the update_one of the Dispatcher's
\* processing write
NextStamp ==
    \/ NextClock
    \/ update_job_status_stamp(1)
    \/ update_job_status_write(1)

SpecStamp == Init /\ [][NextStamp]_vars

\* one worker process that keeps running (Worker.run takes its next step
\* whenever it has one), the asynchronous vendor posting every callback it
\* scheduled and the webhook endpoint handling it
NextLive == ApiStep \/ RunStep({1}, MockSyncReplies)

SpecLive ==
    /\ Init
    /\ [][NextLive]_vars
    /\ WF_vars(RunStep({1}, MockSyncReplies))
    /\ WF_vars(\E job_id \in JobIds, data \in WebhookData : process_async(job_id, data))

\* the ids of a backlog of accepted requests
BacklogIds == 1..(MaxJobs + 1)

RECURSIVE Backlog(_, _)
\* the store and the queue after the intake accepted the requests 1..n
Backlog(n, payload) ==
    IF n = 0
    THEN [store |-> << >>, q |-> << >>]
    ELSE LET b == Backlog(n - 1, payload)
         IN  [store |-> create_job(b.store, n, payload, 0),
              q |-> enqueue_job(b.q, n, payload, SYNC, 0)]

\* the workers start on a backlog: the intake has accepted MaxJobs + 1
\* requests and no entry has been read yet
InitBacklog ==
    /\ \E payload \in Payloads :
          /\ jobs = Backlog(MaxJobs + 1, payload).store
          /\ stream = Backlog(MaxJobs + 1, payload).q
    /\ nextId = MaxJobs + 2
    /\ lastDelivered = 0
    /\ pel = {}
    /\ pc = [w \in Workers |-> "idle"]
    /\ cur = [w \in Workers |-> NoCur]
    /\ callbacks = {}
    /\ now = 0
    /\ accepted = {}
    /\ webhooked = {}
    /\ response = NoResponse
    /\ deliveries = << >>
    /\ requests = << >>
    /\ last_call_time = [w \in Workers |-> [ch \in VendorType |-> 0]]
    /\ waiting = [w \in Workers |-> NoCall]
    /\ admitted = << >>

\* one worker process working off the backlog, the asynchronous vendor
\* posting its callbacks
NextBacklog ==
    \/ RunStep({1}, MockSyncReplies)
    \/ \E job_id \in BacklogIds : process_async(job_id, WebhookPii)

SpecBacklog == InitBacklog /\ [][NextBacklog]_vars

\* the rate limiters of the worker processes, the clock running
InitLimiter ==
    /\ jobs = << >>
    /\ nextId = 1
    /\ stream = << >>
    /\ lastDelivered = 0
    /\ pel = {}
    /\ pc = [w \in Workers |-> "idle"]
    /\ cur = [w \in Workers |-> NoCur]
    /\ callbacks = {}
    /\ now = StartTime
    /\ accepted = {}
    /\ webhooked = {}
    /\ response = NoResponse
    /\ deliveries = << >>
    /\ requests = << >>
    /\ last_call_time = [w \in Workers |-> [ch \in VendorType |-> 0]]
    /\ waiting = [w \in Workers |-> NoCall]
    /\ admitted = << >>

\* the calls of the worker processes W to the vendors C through their limiters
LimiterStep(W, C) ==
    \/ Elapse
    \/ \E w \in W, ch \in C : wait_if_needed_enter(w, ch)
    \/ \E w \in W : wait_if_needed_return(w)

\* one worker process, calling both vendors
NextLimiter == LimiterStep({1}, VendorType)

SpecLimiter == InitLimiter /\ [][NextLimiter]_vars

\* all worker processes, calling the synchronous vendor
NextLimiters == LimiterStep(Workers, {SYNC})

SpecLimiters == InitLimiter /\ [][NextLimiters]_vars

TypeOK ==
    /\ nextId \in 1..(MaxJobs + 1)
    /\ DOMAIN jobs \subseteq JobIds
    /\ \A j \in DOMAIN jobs : jobs[j].status \in JobStatus
    /\ lastDelivered \in 0..Len(stream)
    /\ pel \subseteq 1..lastDelivered
    /\ now \in 0..MaxClock

(***************************************************************************)
(* Properties.                                                             *)
(***************************************************************************)
\* worker w holds an entry dequeue_job returned and process_job has not finished
InProcess(w) == pc[w] \in {"dequeued", "processing", "called"}

\* some worker process takes a step
WorkerStep ==
    \E w \in Workers :
        \/ dequeue_job_read(w)
        \/ dequeue_job_ack(w)
        \/ dequeue_job_fail(w)
        \/ process_job_start(w)
        \/ process_job_finish(w)
        \/ Crash(w)
        \/ \E parity \in {0, 1}, reply \in SyncReplies : call_sync_vendor(w, parity, reply)
        \/ \E parity \in {0, 1}, reply \in AsyncReplies, scheduled \in BOOLEAN :
              call_async_vendor(w, parity, reply, scheduled)

\* the webhook handler runs for job_id with data
WebhookStep(job_id, data) == vendor_webhook(job_id, data) \/ process_async(job_id, data)

\* C1: at-least-once delivery - whenever a worker process dies after
\* dequeue_job handed it an entry and before process_job finished that job,
\* the entry is still in the consumer group's pending entries list (it was
\* not acknowledged and can be claimed again).
C1_CrashLeavesEntryPending ==
    [][\A w \in Workers :
          (Crash(w) /\ InProcess(w)) => cur[w].message_id \in pel']_vars

\* C2: terminal states are absorbing - no step changes the status of a job
\* whose stored status is complete or failed.
C2_TerminalAbsorbing ==
    [][\A j \in DOMAIN jobs :
          jobs[j].status \in {COMPLETE, FAILED} => jobs'[j].status = jobs[j].status]_vars

\* every PII-keyed field is redacted and every string is trimmed, at every
\* depth of mappings and sequences
RECURSIVE IsSanitized(_)
IsSanitized(x) ==
    CASE x.t = "str" -> Strip(x.v) = x.v
      [] x.t = "dict" ->
            \A i \in 1..Len(x.v) :
                /\ IsPiiKey(x.v[i].k) => x.v[i].val = Redacted
                /\ IsSanitized(x.v[i].val)
      [] x.t = "list" -> \A i \in 1..Len(x.v) : IsSanitized(x.v[i])
      [] OTHER -> TRUE

\* a 200 reply of the synchronous vendor whose body has success = true
IsSuccessBody(x) == x.t = "dict" /\ Get(x, kSuccess, Null) = BoolV(TRUE)

\* C3: when process_job finishes a job whose synchronous vendor call returned
\* a successful response, the job's status is complete and the stored result
\* is sanitized at every depth (PII-keyed fields redacted, strings trimmed).
C3_SyncResultSanitized ==
    [][\A w \in Workers :
          (process_job_finish(w) /\ cur[w].vendor_type = SYNC /\ IsSuccessBody(cur[w].result))
              => /\ jobs'[cur[w].job_id].status = COMPLETE
                 /\ IsSanitized(jobs'[cur[w].job_id].result)]_vars

IsNonSuccess(x) == x = Null \/ (x.t = "dict" /\ Get(x, kSuccess, Null) = BoolV(FALSE))

\* C6: when process_job finishes a job whose synchronous vendor call failed
\* at transport level or returned a non-success response, the job is failed
\* with a non-empty error text.
C6_SyncFailureMarksFailed ==
    [][\A w \in Workers :
          (process_job_finish(w) /\ cur[w].vendor_type = SYNC /\ IsNonSuccess(cur[w].result))
              => /\ jobs'[cur[w].job_id].status = FAILED
                 /\ jobs'[cur[w].job_id].error # Null
                 /\ jobs'[cur[w].job_id].error.v # ""]_vars

\* C7: the vendor channel a worker dispatched a job to is the vendor_type
\* recorded in the job's queue entry.
C7_RoutesOnSelector ==
    \A w \in Workers :
        pc[w] = "called" => cur[w].vendor_type = stream[cur[w].message_id].vendor_type

\* C8: update_job_status is a partial merge - no step changes a job's payload
\* or created_at; the Dispatcher's status-only write (processing) leaves
\* result and error as they were and sets status and updated_at; a write that
\* supplies a result leaves error alone, and one that supplies an error
\* leaves result alone.
C8_PartialMerge ==
    [][\A j \in DOMAIN jobs :
          /\ jobs'[j].payload = jobs[j].payload
          /\ jobs'[j].created_at = jobs[j].created_at
          /\ (\E w \in Workers : process_job_start(w) /\ cur[w].job_id = j)
                => /\ jobs'[j].result = jobs[j].result
                   /\ jobs'[j].error = jobs[j].error
                   /\ jobs'[j].status = PROCESSING
                   /\ jobs'[j].updated_at = now
          /\ (\E data \in WebhookData : WebhookStep(j, data))
                => jobs'[j].error = jobs[j].error /\ jobs'[j].updated_at = now
          /\ (\E w \in Workers : process_job_finish(w) /\ cur[w].job_id = j)
                => /\ jobs'[j].status = FAILED => jobs'[j].result = jobs[j].result
                   /\ jobs'[j].status = COMPLETE => jobs'[j].error = jobs[j].error]_vars

\* C8 witness: a status-only write hit a record that already carried a result,
\* later than the record's creation
C8_Witness ==
    \E j \in DOMAIN jobs :
        /\ jobs[j].status = PROCESSING
        /\ jobs[j].result # Null
        /\ jobs[j].updated_at > jobs[j].created_at

\* C9: a record carries a result only while complete and an error only while
\* failed.
C9_ResultErrorMatchStatus ==
    \A j \in DOMAIN jobs :
        /\ jobs[j].result # Null => jobs[j].status = COMPLETE
        /\ jobs[j].error # Null => jobs[j].status = FAILED

\* C10: every change of a stored status is pending -> processing,
\* processing -> complete or processing -> failed.
C10_OneDirectional ==
    [][\A j \in DOMAIN jobs :
          jobs'[j].status # jobs[j].status =>
              <<jobs[j].status, jobs'[j].status>> \in
                  { <<PENDING, PROCESSING>>, <<PROCESSING, COMPLETE>>, <<PROCESSING, FAILED>> }]_vars

C12_WebhookAnswered200 ==
    response.op = "vendor_webhook" => response.code = 200

\* C13: an intake request whose id is already stored fails (500, nothing
\* queued) and leaves the store as it was; a status query for an id that is
\* not in the store is answered 404.
C13_CreateUnique ==
    [][/\ \A request_id \in JobIds, payload \in Payloads, vendor_type \in VendorType :
             api_create_job_collision(request_id, payload, vendor_type) =>
                 /\ jobs' = jobs
                 /\ stream' = stream
                 /\ response' = Response("create_job", 500, UnknownId)
       /\ \A request_id \in JobIds \cup {UnknownId} :
             (get_job_status(request_id) /\ request_id \notin DOMAIN jobs) =>
                 response' = Response("get_job_status", 404, UnknownId)]_vars

\* C13 witness: an intake request was refused after every id had been handed
\* out and the job that has the id had left pending
C13_Witness ==
    /\ response = Response("create_job", 500, UnknownId)
    /\ nextId > MaxJobs
    /\ \E j \in DOMAIN jobs : jobs[j].status = COMPLETE

\* C14: xreadgroup returns every stream entry at most once, two worker
\* processes never hold the same entry, and one dequeue_job call takes one
\* entry.
C14_DeliveredOnce ==
    /\ [](\A id \in DOMAIN deliveries : deliveries[id] = 1)
    /\ [](\A w1, w2 \in Workers :
            (w1 # w2 /\ pc[w1] # "idle" /\ pc[w2] # "idle")
                => cur[w1].message_id # cur[w2].message_id)
    /\ [][\A w \in Workers :
            dequeue_job_read(w) =>
                /\ cur'[w].message_id \notin DOMAIN deliveries
                /\ DOMAIN deliveries' = DOMAIN deliveries \cup {cur'[w].message_id}]_vars

\* C14 witness: one worker processes the only entry while another, which
\* reads from the same group, is left without one
C14_Witness ==
    \E w1, w2 \in Workers :
        /\ w1 # w2
        /\ pc[w1] = "processing"
        /\ pc[w2] = "idle"
        /\ lastDelivered = Len(stream)
        /\ deliveries[cur[w1].message_id] = 1

\* calls i and k went through the same limiter, k next after i
Consecutive(i, k) ==
    /\ i < k
    /\ admitted[i].w = admitted[k].w
    /\ admitted[i].ch = admitted[k].ch
    /\ \A m \in (i + 1)..(k - 1) :
          admitted[m].w # admitted[i].w \/ admitted[m].ch # admitted[i].ch

\* C15: two consecutive calls admitted by one limiter are at least
\* min_interval = 1/N apart; a call that enters less than min_interval after
\* the previous admission is not admitted at once, however long the limiter
\* had been idle before that admission.
C15_MinInterval ==
    \A i, k \in 1..Len(admitted) :
        Consecutive(i, k) =>
            /\ admitted[k].at - admitted[i].at >= min_interval(admitted[i].ch)
            /\ admitted[k].entered - admitted[i].at < min_interval(admitted[i].ch)
                  => admitted[k].at > admitted[k].entered

\* C15 witness: after an idle time of more than two intervals a call is
\* admitted at once, and the call that enters right behind it is admitted
\* exactly one interval later
C15_Witness ==
    \E h, i, k \in 1..Len(admitted) :
        /\ Consecutive(h, i)
        /\ Consecutive(i, k)
        /\ admitted[i].at - admitted[h].at > 2 * min_interval(admitted[i].ch)
        /\ admitted[i].at = admitted[i].entered
        /\ admitted[k].entered = admitted[i].at
        /\ admitted[k].at = admitted[i].at + min_interval(admitted[i].ch)

Queued(j) ==
    j \in DOMAIN jobs /\ \E i \in 1..Len(stream) : stream[i].request_id = j

Terminal(j) == j \in DOMAIN jobs /\ jobs[j].status \in {COMPLETE, FAILED}

\* C17: every job that intake stored and queued is eventually complete or
\* failed, the worker taking its steps and the asynchronous vendor's
\* callbacks being delivered.
C17_EventuallyTerminal ==
    \A j \in JobIds : Queued(j) ~> Terminal(j)

\* C18: when process_job finishes a job whose asynchronous dispatch failed
\* (the request raised or was answered with a status other than 200), the
\* job is failed with a non-empty error text.
C18_AsyncFailureMarksFailed ==
    [][\A w \in Workers :
          (process_job_finish(w) /\ cur[w].vendor_type = ASYNC /\ ~cur[w].success)
              => /\ jobs'[cur[w].job_id].status = FAILED
                 /\ jobs'[cur[w].job_id].error # Null
                 /\ jobs'[cur[w].job_id].error.v # ""]_vars

\* C18 witness: a job the asynchronous vendor never took is failed with the
\* Dispatcher's error text, the worker being back in its loop
C18_Witness ==
    \E j \in DOMAIN jobs :
        /\ jobs[j].status = FAILED
        /\ jobs[j].error = TextV("Async vendor call failed")
        /\ j \notin accepted
        /\ j \notin callbacks
        /\ \A w \in Workers : pc[w] = "idle"

\* worker w issues a vendor request
VendorCall(w) ==
    \/ \E parity \in {0, 1}, reply \in SyncReplies : call_sync_vendor(w, parity, reply)
    \/ \E parity \in {0, 1}, reply \in AsyncReplies, scheduled \in BOOLEAN :
          call_async_vendor(w, parity, reply, scheduled)

\* C19: whenever a worker issues a vendor request for a job, the job is in
\* the store with status processing.
C19_CalledOnlyWhenProcessing ==
    [][\A w \in Workers :
          VendorCall(w) =>
              /\ cur[w].job_id \in DOMAIN jobs
              /\ jobs[cur[w].job_id].status = PROCESSING]_vars

\* C20: a dequeue_job that fails leaves the worker at the head of its loop
\* with no job record touched; when process_job raises, the job is failed
\* with the text of the exception; and whatever the vendor answered,
\* process_job returns to the head of the loop.
C20_LoopSurvives ==
    [][\A w \in Workers :
          /\ dequeue_job_fail(w) => pc'[w] = "idle" /\ jobs' = jobs
          /\ process_job_finish(w) => pc'[w] = "idle"
          /\ (process_job_finish(w) /\ Truthy(cur[w].result) /\ cur[w].result.t # "dict")
                => /\ jobs'[cur[w].job_id].status = FAILED
                   /\ jobs'[cur[w].job_id].error = AttributeErrorText]_vars

\* C20 witness: a job whose vendor reply made process_job raise is failed
\* with the exception text and the worker is back at the head of its loop
C20_Witness ==
    \E j \in DOMAIN jobs :
        /\ jobs[j].status = FAILED
        /\ jobs[j].error = AttributeErrorText
        /\ pc[1] = "idle"

\* calls i and k reached the vendor of the same channel, k next after i
NextOnChannel(i, k) ==
    /\ i < k
    /\ admitted[i].ch = admitted[k].ch
    /\ \A m \in (i + 1)..(k - 1) : admitted[m].ch # admitted[i].ch

\* C21: two consecutive calls reaching the vendor of one channel are at
\* least min_interval apart, whichever worker processes made them.
C21_ChannelInterval ==
    \A i, k \in 1..Len(admitted) :
        NextOnChannel(i, k) =>
            admitted[k].at - admitted[i].at >= min_interval(admitted[i].ch)

\* C22: no retry - the VendorClients send at most one request for each
\* stream entry, and process_job, finishing after a call that did not
\* succeed, marks the job failed and sends no request.
C22_NoRetry ==
    /\ [](\A id \in DOMAIN requests : requests[id] = 1)
    /\ [][\A w \in Workers :
            process_job_finish(w) /\ CallFailed(cur[w]) =>
                /\ jobs'[cur[w].job_id].status = FAILED
                /\ requests' = requests
                /\ pc'[w] = "idle"]_vars

\* the one request sent for a job's entry failed, the job is failed and the
\* worker processes are back at the queue
C22_Witness ==
    \E j \in DOMAIN jobs :
        /\ jobs[j].status = FAILED
        /\ jobs[j].error.v \in {TextV("Sync vendor call failed").v,
                                TextV("Async vendor call failed").v}
        /\ \E id \in DOMAIN requests : stream[id].request_id = j /\ requests[id] = 1
        /\ \A w \in Workers : pc[w] = "idle"

\* C23: every entry of the queue refers to a job that is in the store, and
\* so does every request dequeue_job has handed to a worker process; the
\* intake adds an entry only when it has stored the job's record.
C23_EntriesHaveJobs ==
    /\ \A id \in 1..Len(stream) : stream[id].request_id \in DOMAIN jobs
    /\ \A w \in Workers : InProcess(w) => cur[w].job_id \in DOMAIN jobs
    /\ response.op = "create_job" /\ response.code = 500 =>
          \A id \in 1..Len(stream) : stream[id].request_id # nextId - 1

\* dequeue_job has handed a worker process the entry of a stored job
C23_Witness ==
    \E w \in Workers :
        /\ pc[w] = "dequeued"
        /\ stream[cur[w].message_id].request_id = cur[w].job_id
        /\ cur[w].job_id \in DOMAIN jobs
        /\ jobs[cur[w].job_id].status = PENDING

\* C24: no update moves a job's updated_at back, and updated_at is never
\* earlier than created_at.
C24_UpdatedAtMonotonic ==
    /\ [](\A j \in DOMAIN jobs : jobs[j].updated_at >= jobs[j].created_at)
    /\ [][\A j \in DOMAIN jobs : jobs'[j].updated_at >= jobs[j].updated_at]_vars

\* the body has no job_id, has no data, or its data is not a mapping
Malformed(body) ==
    \/ \A i \in 1..Len(body.v) : body.v[i].k # kJobId
    \/ \A i \in 1..Len(body.v) : body.v[i].k # kData
    \/ \E i \in 1..Len(body.v) : body.v[i].k = kData /\ body.v[i].val.t # "dict"

C26_DuplicateAccepted ==
    [][\A j \in DOMAIN jobs, data \in WebhookData :
          WebhookStep(j, data) /\ j \in webhooked =>
              /\ response' = Response("vendor_webhook", 200, UnknownId)
              /\ jobs'[j].status = COMPLETE
              /\ jobs'[j].result = data
              /\ jobs[j].status = COMPLETE /\ jobs[j].result = data =>
                    /\ jobs'[j].status = jobs[j].status
                    /\ jobs'[j].result = jobs[j].result]_vars

\* C27: a worker process is handed its next entry only when it holds no job
\* (process_job for the previous one has returned), the job it sets to
\* processing is the one of the entry it was handed last, and a single worker
\* sets jobs to processing in the order of their entries: a job has left
\* pending only if the job of every earlier entry has, unless the dequeue of
\* that entry failed.
C27_OneInFlightInOrder ==
    /\ [](\A m1, m2 \in 1..Len(stream) :
              m1 < m2 /\ jobs[stream[m2].request_id].status # PENDING =>
                  \/ jobs[stream[m1].request_id].status # PENDING
                  \/ m1 \in pel)
    /\ [][\A w \in Workers :
            /\ cur'[w].message_id \notin {0, cur[w].message_id} =>
                  pc[w] = "idle" /\ cur[w] = NoCur
            /\ process_job_start(w) =>
                  /\ cur[w].job_id = stream[cur[w].message_id].request_id
                  /\ jobs'[cur[w].job_id].status = PROCESSING]_vars

\* the worker has finished the job of the first entry and has set the job of
\* the second to processing
C27_Witness ==
    /\ Len(stream) >= 2
    /\ jobs[stream[1].request_id].status \in {COMPLETE, FAILED}
    /\ jobs[stream[2].request_id].status = PROCESSING
    /\ pc[1] = "processing"
    /\ cur[1].message_id = 2

\* C28: an entry dequeue_job has read is either returned to Worker.run or
\* stays deliverable - when dequeue_job fails after xreadgroup handed it an
\* entry, a later xreadgroup of the group can still deliver that entry (it
\* lies behind the group's last-delivered id).
C28_FailedDequeueRedeliverable ==
    [][\A w \in Workers :
          dequeue_job_fail(w) => lastDelivered' < cur[w].message_id]_vars

\* C29: no orphaned pending jobs - every job in status pending has a queue
\* entry that no xreadgroup has delivered yet, or is the job of the entry a
\* worker process holds and has not yet set to processing.
C29_NoOrphanedPending ==
    \A j \in DOMAIN jobs :
        jobs[j].status = PENDING =>
            \/ \E m \in (lastDelivered + 1)..Len(stream) : stream[m].request_id = j
            \/ \E w \in Workers :
                  /\ pc[w] \in {"read", "dequeued"}
                  /\ stream[cur[w].message_id].request_id = j

\* C30: terminal records are fully populated - a job in status complete has
\* a result that is not null and a job in status failed has an error text
\* that is not empty.
C30_TerminalPopulated ==
    \A j \in DOMAIN jobs :
        /\ jobs[j].status = COMPLETE => jobs[j].result.t # "null"
        /\ jobs[j].status = FAILED =>
              jobs[j].error.t = "text" /\ jobs[j].error.v # ""

\* C31: the callback the asynchronous vendor posts for a job is handled
\* after the Dispatcher's processing write for that job, so it never finds
\* the job in status pending; the vendor has a callback scheduled only for a
\* job a request was sent for, and posts it once.
C31_VendorCallbackAfterProcessing ==
    /\ [](\A j \in callbacks :
              \E id \in DOMAIN requests : stream[id].request_id = j)
    /\ [][\A j \in DOMAIN jobs, data \in WebhookData :
            process_async(j, data) =>
                /\ jobs[j].status # PENDING
                /\ j \notin callbacks']_vars

====
